---- MODULE Spec2Model ----
(***************************************************************************)
(* Mini-Compiler front end: the Lexer (src/lexer.cpp, repeated verbatim at *)
(* the top of src/parser.cpp) and the recursive-descent Parser             *)
(* (src/parser.cpp).                                                       *)
(*                                                                         *)
(* A std::string is a sequence of one-character strings; positions are     *)
(* the 0-based indices of the C++ code, so source_code[current_pos] of the *)
(* code is source_code[current_pos + 1] here.  Input text is 7-bit ASCII.  *)
(***************************************************************************)
EXTENDS Naturals, Sequences, FiniteSets

VARIABLES
    source_code,        \* Lexer::source_code
    current_pos,        \* Lexer::current_pos
    token,              \* main's local `token`: the last token returned
    tokens,             \* main's vector / Parser::tokens
    current_token_idx,  \* Parser::current_token_idx
    pc,                 \* position of the running code
    type,               \* parseVariableDeclaration's local `type`
    identifier,         \* parseVariableDeclaration's local `identifier`
    left,               \* parseExpression's local `left`
    op,                 \* parseExpression's local `op`
    expression,         \* parseVariableDeclaration's local `expression`
    ast_root,           \* what parse() returned
    cerr,               \* the diagnostics written to std::cerr, in order
    called_past_end     \* history: getNextToken() was called after END_OF_FILE

vars == <<source_code, current_pos, token, tokens, current_token_idx, pc,
          type, identifier, left, op, expression, ast_root, cerr,
          called_past_end>>

lexerVars == <<source_code, current_pos, token>>
parserVars == <<current_token_idx, type, identifier, left, op, expression,
                ast_root, cerr>>

----------------------------------------------------------------------------
(* Bounds of the model *)

\* longest source string given to the Lexer, all characters arbitrary
MaxSrcLen == 3
\* most arbitrary characters around the text "int" in a source string
MaxAround == 2
\* most terms in a well-formed initializer expression given to the Parser
MaxTerms == 3
\* most arbitrary tokens following the start of a declaration given to the
\* Parser
MaxGarbage == 1

----------------------------------------------------------------------------
(* Tokens *)

TokenType == {"KEYWORD_INT", "IDENTIFIER", "INTEGER_LITERAL", "OPERATOR_PLUS",
              "OPERATOR_MINUS", "OPERATOR_MULTIPLY", "OPERATOR_DIVIDE",
              "OPERATOR_ASSIGN", "PUNCTUATION_SEMICOLON", "END_OF_FILE",
              "UNKNOWN"}

Token(t, v) == [type |-> t, value |-> v]

\* a Token object that has not been assigned yet (never read by the code)
NoToken == Token("unassigned", <<>>)

----------------------------------------------------------------------------
(* Syntax tree nodes; Null is an empty std::unique_ptr<AstNode> *)

Null == [node |-> "nullptr"]
NumberNode(t) == [node |-> "NumberNode", token |-> t]
\* BinaryOpNode with the children initialised the wrong way round
BinaryOpNode_swapped(l, o, r) ==
    [node |-> "BinaryOpNode", left |-> r, op |-> o, right |-> l]
BinaryOpNode(l, o, r) == [node |-> "BinaryOpNode", left |-> l, op |-> o, right |-> r]
VarDeclNode(t, id, expr) ==
    [node |-> "VarDeclNode", type |-> t, identifier |-> id, expression |-> expr]

----------------------------------------------------------------------------
(* Characters: the <cctype> classes, on the characters of the model *)

Letters == {"i", "n", "t", "I"}
Digits == {"2"}
Spaces == {" "}
Punctuation == {"+", "-", "*", "/", "=", ";"}
Others == {"@"}
Char == Letters \cup Digits \cup Spaces \cup Punctuation \cup Others

isspace(c) == c \in Spaces
isdigit(c) == c \in Digits
isalpha(c) == c \in Letters
isalnum(c) == c \in Letters \cup Digits

\* std::string::substr(start, count), 0-based; the count is clamped to the
\* end of the string
substr(s, start, count) ==
    SubSeq(s, start + 1, IF start + count <= Len(s) THEN start + count ELSE Len(s))

----------------------------------------------------------------------------
(* Lexer *)

RECURSIVE skipWhitespace(_, _)
skipWhitespace(src, pos) ==
    IF pos < Len(src) /\ isspace(src[pos + 1])
    THEN skipWhitespace(src, pos + 1)
    ELSE pos

RECURSIVE digitRun(_, _)
digitRun(src, pos) ==
    IF pos < Len(src) /\ isdigit(src[pos + 1])
    THEN digitRun(src, pos + 1)
    ELSE pos

\* the identifier loop testing isalpha instead of isalnum
RECURSIVE alnumRun_alpha(_, _)
alnumRun_alpha(src, pos) ==
    IF pos < Len(src) /\ isalpha(src[pos + 1])
    THEN alnumRun_alpha(src, pos + 1)
    ELSE pos

RECURSIVE alnumRun(_, _)
alnumRun(src, pos) ==
    IF pos < Len(src) /\ isalnum(src[pos + 1])
    THEN alnumRun(src, pos + 1)
    ELSE pos

\* readInteger passing the end position to substr instead of the length
readInteger_substrEnd(src, start_pos) ==
    LET end == digitRun(src, start_pos)
        value == substr(src, start_pos, end)
    IN  [token |-> Token("INTEGER_LITERAL", value), pos |-> end]

readInteger(src, start_pos) ==
    LET end == digitRun(src, start_pos)
        value == substr(src, start_pos, end - start_pos)
    IN  [token |-> Token("INTEGER_LITERAL", value), pos |-> end]

readIdentifierOrKeyword(src, start_pos) ==
    LET end == alnumRun(src, start_pos)
        value == substr(src, start_pos, end - start_pos)
    IN  IF value = <<"i", "n", "t">>
        THEN [token |-> Token("KEYWORD_INT", value), pos |-> end]
        ELSE [token |-> Token("IDENTIFIER", value), pos |-> end]

\* the END_OF_FILE return with the current_pos++ of the other returns
endOfFile_advancing(src, pos) ==
    [token |-> Token("END_OF_FILE", <<>>), pos |-> pos + 1]

\* the END_OF_FILE return of getNextToken
endOfFile(src, pos) == [token |-> Token("END_OF_FILE", <<>>), pos |-> pos]

\* the fall-through without its current_pos++
unknownToken_stuck(current_char, pos) ==
    [token |-> Token("UNKNOWN", <<current_char>>), pos |-> pos]

\* the fall-through of getNextToken: current_pos++ and an UNKNOWN token
unknownToken(current_char, pos) ==
    [token |-> Token("UNKNOWN", <<current_char>>), pos |-> pos + 1]

\* Lexer::getNextToken on source `src` with the cursor at `pos0`:
\* the token returned and the cursor afterwards
getNextToken(src, pos0) ==
    LET pos == skipWhitespace(src, pos0) IN
    IF pos >= Len(src) THEN endOfFile(src, pos)
    ELSE LET current_char == src[pos + 1] IN
         CASE current_char = "+" ->
                [token |-> Token("OPERATOR_PLUS", <<"+">>), pos |-> pos + 1]
           [] current_char = "-" ->
                [token |-> Token("OPERATOR_MINUS", <<"-">>), pos |-> pos + 1]
           [] current_char = "*" ->
                [token |-> Token("OPERATOR_MULTIPLY", <<"*">>), pos |-> pos + 1]
           [] current_char = "/" ->
                [token |-> Token("OPERATOR_DIVIDE", <<"/">>), pos |-> pos + 1]
           [] current_char = "=" ->
                [token |-> Token("OPERATOR_ASSIGN", <<"=">>), pos |-> pos + 1]
           [] current_char = ";" ->
                [token |-> Token("PUNCTUATION_SEMICOLON", <<";">>), pos |-> pos + 1]
           [] isdigit(current_char) -> readInteger(src, pos)
           [] isalpha(current_char) -> readIdentifierOrKeyword(src, pos)
           [] OTHER -> unknownToken(current_char, pos)

\* every string of exactly n characters
Strings(n) == [1..n -> Char]

\* every source string of at most MaxSrcLen characters, and the text "int"
\* with at most MaxAround characters before and after it
Sources ==
    UNION {Strings(n) : n \in 0..MaxSrcLen}
    \cup UNION {{before \o <<"i", "n", "t">> \o after :
                    before \in Strings(n), after \in UNION {Strings(m) : m \in 0..(MaxAround - n)}} :
                n \in 0..MaxAround}

InitLexer ==
    /\ source_code \in Sources
    /\ current_pos = 0
    /\ token = NoToken
    /\ tokens = <<>>
    /\ pc = "collect"
    /\ current_token_idx = 0
    /\ type = NoToken
    /\ identifier = NoToken
    /\ left = Null
    /\ op = NoToken
    /\ expression = Null
    /\ ast_root = Null
    /\ cerr = <<>>
    /\ called_past_end = FALSE

\* main's do-while: token = lexer.getNextToken(); tokens.push_back(token);
\* repeated until the token is END_OF_FILE
mainCollect ==
    /\ pc = "collect"
    /\ LET r == getNextToken(source_code, current_pos) IN
        /\ token' = r.token
        /\ current_pos' = r.pos
        /\ tokens' = Append(tokens, r.token)
        /\ pc' = IF r.token.type # "END_OF_FILE" THEN "collect" ELSE "collected"
    /\ UNCHANGED <<source_code, called_past_end>>
    /\ UNCHANGED parserVars

\* a further getNextToken() call on a Lexer that has returned END_OF_FILE
callPastEnd ==
    /\ pc = "collected"
    /\ LET r == getNextToken(source_code, current_pos) IN
        /\ token' = r.token
        /\ current_pos' = r.pos
    /\ called_past_end' = TRUE
    /\ UNCHANGED <<source_code, tokens, pc>>
    /\ UNCHANGED parserVars

NextLexer == mainCollect \/ callPastEnd

LexerSpec == InitLexer /\ [][NextLexer]_vars

\* the caller keeps calling getNextToken() until END_OF_FILE comes back
LexerFairSpec == LexerSpec /\ WF_vars(mainCollect)

----------------------------------------------------------------------------
(* Parser *)

\* Parser::advance: the cursor after advance() on a vector of `size` tokens
advance(idx, size) == IF idx < size THEN idx + 1 ELSE idx

\* tokens[current_token_idx] is an element of the vector
inBounds == current_token_idx < Len(tokens)

\* Parser::peek, where the index is in bounds
peek == tokens[current_token_idx + 1]

\* parseTerm consuming the current token whether or not it is a literal
parseTerm_consuming(tok, idx, size) ==
    IF tok.type = "INTEGER_LITERAL"
    THEN [node |-> NumberNode(tok), idx |-> advance(idx, size)]
    ELSE [node |-> Null, idx |-> advance(idx, size)]

\* Parser::parseTerm with `tok` the current token: the node returned and the
\* cursor afterwards
parseTerm(tok, idx, size) ==
    IF tok.type = "INTEGER_LITERAL"
    THEN [node |-> NumberNode(tok), idx |-> advance(idx, size)]
    ELSE [node |-> Null, idx |-> idx]

\* parse() -> parseStatement()
parseStatement ==
    /\ pc = "parseStatement"
    /\ inBounds
    /\ IF peek.type = "KEYWORD_INT"
       THEN /\ pc' = "varDecl_type"
            /\ UNCHANGED ast_root
       ELSE /\ ast_root' = Null
            /\ pc' = "returned"
    /\ UNCHANGED <<tokens, current_token_idx, type, identifier, left, op,
                   expression, cerr, called_past_end>>
    /\ UNCHANGED lexerVars

\* parseVariableDeclaration: Token type = peek(); advance();
varDecl_type ==
    /\ pc = "varDecl_type"
    /\ inBounds
    /\ type' = peek
    /\ current_token_idx' = advance(current_token_idx, Len(tokens))
    /\ pc' = "varDecl_identifier"
    /\ UNCHANGED <<tokens, identifier, left, op, expression, ast_root, cerr,
                   called_past_end>>
    /\ UNCHANGED lexerVars

\* parseVariableDeclaration: the identifier
varDecl_identifier ==
    /\ pc = "varDecl_identifier"
    /\ inBounds
    /\ IF peek.type # "IDENTIFIER"
       THEN /\ cerr' = Append(cerr, "Error: Expected an identifier after int")
            /\ ast_root' = Null
            /\ pc' = "returned"
            /\ UNCHANGED <<identifier, current_token_idx>>
       ELSE /\ identifier' = peek
            /\ current_token_idx' = advance(current_token_idx, Len(tokens))
            /\ pc' = "varDecl_assign"
            /\ UNCHANGED <<cerr, ast_root>>
    /\ UNCHANGED <<tokens, type, left, op, expression, called_past_end>>
    /\ UNCHANGED lexerVars

\* parseVariableDeclaration: the equals sign
varDecl_assign ==
    /\ pc = "varDecl_assign"
    /\ inBounds
    /\ IF peek.type # "OPERATOR_ASSIGN"
       THEN /\ cerr' = Append(cerr, "Error: Expected equals sign")
            /\ ast_root' = Null
            /\ pc' = "returned"
            /\ UNCHANGED current_token_idx
       ELSE /\ current_token_idx' = advance(current_token_idx, Len(tokens))
            /\ pc' = "expr_first"
            /\ UNCHANGED <<cerr, ast_root>>
    /\ UNCHANGED <<tokens, type, identifier, left, op, expression,
                   called_past_end>>
    /\ UNCHANGED lexerVars

\* parseExpression: auto left = parseTerm();
expr_first ==
    /\ pc = "expr_first"
    /\ inBounds
    /\ LET r == parseTerm(peek, current_token_idx, Len(tokens)) IN
        /\ left' = r.node
        /\ current_token_idx' = r.idx
    /\ pc' = "expr_loop"
    /\ UNCHANGED <<tokens, type, identifier, op, expression, ast_root, cerr,
                   called_past_end>>
    /\ UNCHANGED lexerVars

\* parseExpression: the while condition; on an operator, Token op = peek();
\* advance(); otherwise return left, which becomes the caller's `expression`
expr_loop ==
    /\ pc = "expr_loop"
    /\ inBounds
    /\ IF peek.type = "OPERATOR_PLUS" \/ peek.type = "OPERATOR_MINUS"
       THEN /\ op' = peek
            /\ current_token_idx' = advance(current_token_idx, Len(tokens))
            /\ pc' = "expr_right"
            /\ UNCHANGED expression
       ELSE /\ expression' = left
            /\ pc' = "varDecl_expression"
            /\ UNCHANGED <<op, current_token_idx>>
    /\ UNCHANGED <<tokens, type, identifier, left, ast_root, cerr,
                   called_past_end>>
    /\ UNCHANGED lexerVars

\* parseExpression: auto right = parseTerm(); the check of `right`; the fold
expr_right ==
    /\ pc = "expr_right"
    /\ inBounds
    /\ LET r == parseTerm(peek, current_token_idx, Len(tokens)) IN
        IF r.node = Null
        THEN /\ cerr' = Append(cerr,
                    "Error: Expected a number or identifier after operator")
             /\ expression' = Null
             /\ pc' = "varDecl_expression"
             /\ UNCHANGED <<left, current_token_idx>>
        ELSE /\ left' = BinaryOpNode(left, op, r.node)
             /\ current_token_idx' = r.idx
             /\ pc' = "expr_loop"
             /\ UNCHANGED <<cerr, expression>>
    /\ UNCHANGED <<tokens, type, identifier, op, ast_root, called_past_end>>
    /\ UNCHANGED lexerVars

\* parseVariableDeclaration: if (!expression) return nullptr;
varDecl_expression ==
    /\ pc = "varDecl_expression"
    /\ IF expression = Null
       THEN /\ ast_root' = Null
            /\ pc' = "returned"
       ELSE /\ pc' = "varDecl_semicolon"
            /\ UNCHANGED ast_root
    /\ UNCHANGED <<tokens, current_token_idx, type, identifier, left, op,
                   expression, cerr, called_past_end>>
    /\ UNCHANGED lexerVars

\* parseVariableDeclaration: the semicolon and the VarDeclNode
varDecl_semicolon ==
    /\ pc = "varDecl_semicolon"
    /\ inBounds
    /\ IF peek.type # "PUNCTUATION_SEMICOLON"
       THEN /\ cerr' = Append(cerr, "Error: Expected semicolon")
            /\ ast_root' = Null
            /\ UNCHANGED current_token_idx
       ELSE /\ current_token_idx' = advance(current_token_idx, Len(tokens))
            /\ ast_root' = VarDeclNode(type, identifier, expression)
            /\ UNCHANGED cerr
    /\ pc' = "returned"
    /\ UNCHANGED <<tokens, type, identifier, left, op, expression,
                   called_past_end>>
    /\ UNCHANGED lexerVars

\* the positions of the code that call peek()
peeking == {"parseStatement", "varDecl_type", "varDecl_identifier",
            "varDecl_assign", "expr_first", "expr_loop", "expr_right",
            "varDecl_semicolon"}

\* peek() with the cursor at or past tokens.size(): tokens[i] is read out of
\* bounds, and the behaviour from there on is undefined.  Nothing is known
\* of the state "undefined": the run may crash or return anything.
peekOutOfBounds ==
    /\ pc \in peeking
    /\ ~inBounds
    /\ pc' = "undefined"
    /\ UNCHANGED <<tokens, called_past_end>>
    /\ UNCHANGED parserVars
    /\ UNCHANGED lexerVars

(* The token vectors given to the Parser *)

\* the lexeme of a token of kind `t` at (1-based) place i of a vector; the
\* integer literals of a declaration differ from one another
lexemeOf(t, i) ==
    CASE t = "KEYWORD_INT" -> <<"i", "n", "t">>
      [] t = "IDENTIFIER" -> <<"x">>
      [] t = "INTEGER_LITERAL" ->
            <<<<"0", "1", "2", "3", "4", "5", "6", "7", "8", "9">>[(i % 10) + 1]>>
      [] t = "OPERATOR_PLUS" -> <<"+">>
      [] t = "OPERATOR_MINUS" -> <<"-">>
      [] t = "OPERATOR_MULTIPLY" -> <<"*">>
      [] t = "OPERATOR_DIVIDE" -> <<"/">>
      [] t = "OPERATOR_ASSIGN" -> <<"=">>
      [] t = "PUNCTUATION_SEMICOLON" -> <<";">>
      [] t = "END_OF_FILE" -> <<>>
      [] OTHER -> <<"@">>

withLexemes(types) == [i \in 1..Len(types) |-> Token(types[i], lexemeOf(types[i], i))]

\* the token kinds of: int x = n op n ... op n ;  with k terms
declaration(k, ops) ==
    [i \in 1..(2 * k + 3) |->
        CASE i = 1 -> "KEYWORD_INT"
          [] i = 2 -> "IDENTIFIER"
          [] i = 3 -> "OPERATOR_ASSIGN"
          [] i = 2 * k + 3 -> "PUNCTUATION_SEMICOLON"
          [] i > 3 /\ i < 2 * k + 3 /\ i % 2 = 0 -> "INTEGER_LITERAL"
          [] OTHER -> ops[(i - 3) \div 2]]

declarations ==
    UNION {{declaration(k, ops) : ops \in [1..(k - 1) -> {"OPERATOR_PLUS", "OPERATOR_MINUS"}]} :
           k \in 1..MaxTerms}

\* sequence s without its i-th element
removeAt(s, i) == SubSeq(s, 1, i - 1) \o SubSeq(s, i + 1, Len(s))

\* the declarations, and the declarations with one token missing (the int,
\* the identifier, the equals sign, an operand, an operator, the semicolon)
shapes ==
    declarations \cup UNION {{removeAt(d, i) : i \in 1..Len(d)} : d \in declarations}

starts == UNION {{SubSeq(d, 1, n) : n \in 0..Len(d)} : d \in shapes}

arbitraryTokens == UNION {[1..n -> TokenType] : n \in 0..MaxGarbage}

\* every vector that starts as a declaration of at most MaxTerms terms does,
\* or as one with a token missing, goes on with at most MaxGarbage tokens of
\* any kind, and ends with END_OF_FILE or without it
TokenVectors ==
    {withLexemes(p \o g \o e) :
        p \in starts, g \in arbitraryTokens, e \in {<<>>, <<"END_OF_FILE">>}}

\* the state after Parser parser(tokens), parse() about to run
InitParser ==
    /\ tokens \in TokenVectors
    /\ current_token_idx = 0
    /\ pc = "parseStatement"
    /\ type = NoToken
    /\ identifier = NoToken
    /\ left = Null
    /\ op = NoToken
    /\ expression = Null
    /\ ast_root = Null
    /\ cerr = <<>>
    /\ source_code = <<>>
    /\ current_pos = 0
    /\ token = NoToken
    /\ called_past_end = FALSE

NextParser ==
    \/ parseStatement
    \/ varDecl_type
    \/ varDecl_identifier
    \/ varDecl_assign
    \/ expr_first
    \/ expr_loop
    \/ expr_right
    \/ varDecl_expression
    \/ varDecl_semicolon
    \/ peekOutOfBounds

ParserSpec == InitParser /\ [][NextParser]_vars

----------------------------------------------------------------------------
(* Properties of the Lexer *)

\* the source with its whitespace characters removed
stripWhitespace(src) == SelectSeq(src, LAMBDA c : ~isspace(c))

\* the lexemes of a token sequence, concatenated in order
RECURSIVE lexemes(_)
lexemes(toks) ==
    IF toks = <<>> THEN <<>> ELSE Head(toks).value \o lexemes(Tail(toks))

hasWhitespace(src) == \E i \in 1..Len(src) : isspace(src[i])

\* C5 (tokenizer totality): the cursor never exceeds the source length,
\* every getNextToken() call that returns a token other than END_OF_FILE
\* strictly increases the cursor, and the repeated calls reach END_OF_FILE.
C5_TokenizerTotality ==
    /\ [](current_pos <= Len(source_code))
    /\ [][token'.type # "END_OF_FILE" => current_pos' > current_pos]_vars
    /\ <>(pc = "collected" /\ token.type = "END_OF_FILE")

\* a source with whitespace and at least two other tokens was read to its end
C5_Witness ==
    /\ pc = "collected"
    /\ hasWhitespace(source_code)
    /\ Len(tokens) >= 3
    /\ current_pos = Len(source_code)

\* C6 (round trip): the lexemes of the tokens up to and including the first
\* END_OF_FILE, concatenated, are the source without its whitespace; for a
\* source without whitespace they are the source itself.
C6_RoundTrip ==
    pc = "collected" =>
        /\ lexemes(tokens) = stripWhitespace(source_code)
        /\ (~hasWhitespace(source_code) => lexemes(tokens) = source_code)

\* a source with whitespace and a multi-character lexeme was tokenized
C6_Witness ==
    /\ pc = "collected"
    /\ hasWhitespace(source_code)
    /\ \E i \in 1..Len(tokens) : Len(tokens[i].value) >= 2
    /\ Len(tokens) >= 3

\* where the last returned token's lexeme starts (0-based)
tokenStart == current_pos - Len(token.value)

\* C7 (keyword exactness): the token returned is KEYWORD_INT or IDENTIFIER
\* exactly when it starts at a letter; its lexeme is then the run of
\* alphanumeric characters from there, the character after it (if any) is
\* not alphanumeric, and it is KEYWORD_INT exactly when the lexeme is "int".
C7_KeywordExactness ==
    (token # NoToken /\ token.type # "END_OF_FILE") =>
        /\ token.type \in {"KEYWORD_INT", "IDENTIFIER"}
               <=> isalpha(source_code[tokenStart + 1])
        /\ token.type \in {"KEYWORD_INT", "IDENTIFIER"} =>
               /\ token.value = substr(source_code, tokenStart, Len(token.value))
               /\ \A i \in 1..Len(token.value) : isalnum(token.value[i])
               /\ current_pos < Len(source_code) =>
                      ~isalnum(source_code[current_pos + 1])
               /\ token.type = "KEYWORD_INT" <=> token.value = <<"i", "n", "t">>

\* "int" followed by a digit was returned as one IDENTIFIER
C7_Witness ==
    /\ token.type = "IDENTIFIER"
    /\ Len(token.value) = 4
    /\ SubSeq(token.value, 1, 3) = <<"i", "n", "t">>
    /\ isdigit(token.value[4])

\* C8 (END_OF_FILE is absorbing): once getNextToken() has returned
\* END_OF_FILE, every later call returns {END_OF_FILE, ""} and leaves the
\* cursor where it was.
C8_EndOfFileAbsorbing ==
    [][token.type = "END_OF_FILE" =>
          /\ token' = Token("END_OF_FILE", <<>>)
          /\ current_pos' = current_pos]_vars

\* getNextToken() was called again after END_OF_FILE, on a source that ends
\* with whitespace after a token
C8_Witness ==
    /\ called_past_end
    /\ token.type = "END_OF_FILE"
    /\ Len(tokens) >= 2
    /\ isspace(source_code[Len(source_code)])

----------------------------------------------------------------------------
(* Properties of the Parser *)

\* the vector ends with END_OF_FILE
terminated(toks) == Len(toks) > 0 /\ toks[Len(toks)].type = "END_OF_FILE"

\* the vector's last element is its only END_OF_FILE
wellTerminated(toks) ==
    /\ terminated(toks)
    /\ \A i \in 1..(Len(toks) - 1) : toks[i].type # "END_OF_FILE"

\* the first 2k+3 tokens are: int IDENTIFIER = n (op n)* ;  with k terms
isDeclarationPrefix(toks, k) ==
    /\ 2 * k + 3 <= Len(toks)
    /\ toks[1].type = "KEYWORD_INT"
    /\ toks[2].type = "IDENTIFIER"
    /\ toks[3].type = "OPERATOR_ASSIGN"
    /\ \A j \in 1..k : toks[2 * j + 2].type = "INTEGER_LITERAL"
    /\ \A j \in 1..(k - 1) :
           toks[2 * j + 3].type \in {"OPERATOR_PLUS", "OPERATOR_MINUS"}
    /\ toks[2 * k + 3].type = "PUNCTUATION_SEMICOLON"

hasDeclarationPrefix(toks) == \E k \in 1..Len(toks) : isDeclarationPrefix(toks, k)

\* the vector is exactly a declaration of k terms followed by END_OF_FILE
isDeclaration(toks, k) ==
    /\ Len(toks) = 2 * k + 4
    /\ isDeclarationPrefix(toks, k)
    /\ toks[2 * k + 4].type = "END_OF_FILE"

\* the left fold of the first k terms of a declaration
RECURSIVE leftFold(_, _)
leftFold(toks, k) ==
    IF k = 1
    THEN [node |-> "NumberNode", token |-> toks[4]]
    ELSE [node |-> "BinaryOpNode",
          left |-> leftFold(toks, k - 1),
          op |-> toks[2 * k + 1],
          right |-> [node |-> "NumberNode", token |-> toks[2 * k + 2]]]

\* no child pointer of the tree is null
RECURSIVE complete(_)
complete(n) ==
    CASE n.node = "NumberNode" -> TRUE
      [] n.node = "BinaryOpNode" -> complete(n.left) /\ complete(n.right)
      [] n.node = "VarDeclNode" -> complete(n.expression)
      [] OTHER -> FALSE

\* C1: on a vector that ends with END_OF_FILE, parse() returns a tree only
\* if the vector starts with int IDENTIFIER = n (op n)* ;
C1_TreeOnlyForDeclaration ==
    (pc = "returned" /\ terminated(tokens) /\ ast_root # Null) =>
        hasDeclarationPrefix(tokens)

\* C2: on a vector that ends with END_OF_FILE, a tree returned by parse()
\* has no null child: the initializer and both children of every
\* BinaryOpNode are nodes.
C2_NoPartialTree ==
    (pc = "returned" /\ terminated(tokens) /\ ast_root # Null) =>
        complete(ast_root)

\* C3: for int IDENTIFIER = n1 op1 ... nk ; END_OF_FILE, parse() returns the
\* VarDeclNode of the type and identifier tokens whose expression is the
\* left fold of the terms (the literal alone when k = 1).
C3_LeftFold ==
    \A k \in 1..Len(tokens) :
        (pc = "returned" /\ isDeclaration(tokens, k)) =>
            ast_root = [node |-> "VarDeclNode",
                        type |-> tokens[1],
                        identifier |-> tokens[2],
                        expression |-> leftFold(tokens, k)]

\* int x = n + n - n ; has been parsed
C3_Witness ==
    /\ pc = "returned"
    /\ isDeclaration(tokens, 3)
    /\ tokens[5].type = "OPERATOR_PLUS"
    /\ tokens[7].type = "OPERATOR_MINUS"
    /\ ast_root # Null

\* C4: on a vector that ends with END_OF_FILE, parse() returns no tree only
\* after the Parser has written a diagnostic.
C4_FailureHasDiagnostic ==
    (pc = "returned" /\ terminated(tokens) /\ ast_root = Null) => cerr # <<>>

\* C9: a step of the Parser moves the cursor by one or leaves it, and leaves
\* it when it is at the final index, tokens.size() - 1.
C9_AdvanceStopsAtFinalIndex ==
    [][/\ current_token_idx' \in {current_token_idx, current_token_idx + 1}
       /\ current_token_idx + 1 = Len(tokens) =>
              current_token_idx' = current_token_idx]_vars

\* C10: on a vector whose last element is its only END_OF_FILE, the cursor
\* stays at or before that element, and no peek() reads out of bounds.
C10_CursorStaysInBounds ==
    wellTerminated(tokens) =>
        /\ current_token_idx < Len(tokens)
        /\ pc # "undefined"

\* parse() has returned a tree with the cursor on the END_OF_FILE token
C10_Witness ==
    /\ wellTerminated(tokens)
    /\ pc = "returned"
    /\ ast_root # Null
    /\ current_token_idx + 1 = Len(tokens)

====
